---------------------------- MODULE Spec2Model ----------------------------
(***************************************************************************)
(* A model of the SoccerNet annotation ingestion, caching and conversion   *)
(* engine of src/custom_soccernet_dataset.py (class SoccerNetDataset).     *)
(*                                                                         *)
(* A frame path  split/<seq>/img1/<frame>.jpg  is the pair <<seq, frame>>; *)
(* sequence and frame names are naturals whose order is the order of the   *)
(* names.  Numbers read from JSON are exact rationals <<num, den>>.        *)
(***************************************************************************)
EXTENDS Integers, Sequences, FiniteSets, TLC

VARIABLES
    tree,       \* disk: per entry of the split directory, [isdir, img1, frames]
    jsons,      \* disk: per sequence, its annotation JSON file
    cacheFile,  \* disk: <<>> when <split>_labels.cache is absent, else <<object>>
    im_files,   \* engine: self.im_files
    inst,       \* engine: "none" before construction, "scanned" (im_files is the
                \* scan of the tree as it is), "stale" (the tree changed since the
                \* scan), "loaded" (get_labels has returned)
    dirOrder,   \* the directory order iterdir() produced in the recorded scan
    last,       \* outcome of the last get_labels call
    calls,      \* number of get_labels calls made so far
    edits,      \* number of changes made to the disk by the environment
    builtTree,  \* <<tree>> as it was when the cache file was last written by a
                \* build and not touched since, else <<>>
    geo,        \* the box of the geometry round trip
    outFile,    \* disk: <<>> when nothing is at save_path, else <<what was written>>
    license_state, \* server: the module-level license_state dict
    temp_dirs,  \* server: number of directories made by tempfile.mkdtemp
    inflight,   \* server: <<>> or <<the analyze_video request suspended at its await>>
    responses,  \* server: the requests answered so far, in order, with their answers
    now         \* server: the clock datetime.utcnow() reads

serverVars == <<license_state, temp_dirs, inflight, responses, now>>

datasetVars == <<tree, jsons, cacheFile, im_files, inst, dirOrder, last, calls, edits, builtTree,
                 geo, outFile>>

vars == <<tree, jsons, cacheFile, im_files, inst, dirOrder, last, calls, edits, builtTree, geo,
          outFile, license_state, temp_dirs, inflight, responses, now>>

-----------------------------------------------------------------------------
(* Bounds *)

NumSeqs == 2
MaxFrame == 2
MaxCalls == 3
MaxEdits == 1
MaxIndex == 3

SeqNames == 1..NumSeqs
FrameNames == 1..MaxFrame

-----------------------------------------------------------------------------
(* Exact rational arithmetic: <<n, d>> with d > 0, kept in lowest terms. *)

RECURSIVE Gcd(_, _)
Gcd(a, b) == IF b = 0 THEN a ELSE Gcd(b, a % b)

Abs(n) == IF n < 0 THEN -n ELSE n

Reduce(n, d) ==
    LET g == Gcd(Abs(n), Abs(d))
        s == IF d < 0 THEN -1 ELSE 1
    IN  <<(s * n) \div g, (s * d) \div g>>

Num(n) == <<n, 1>>
RAdd(a, b) == Reduce(a[1] * b[2] + b[1] * a[2], a[2] * b[2])
RSub(a, b) == Reduce(a[1] * b[2] - b[1] * a[2], a[2] * b[2])
RMul(a, b) == Reduce(a[1] * b[1], a[2] * b[2])
RDiv(a, b) == Reduce(a[1] * b[2], a[2] * b[1])
RGt(a, b) == a[1] * b[2] > b[1] * a[2]
RLe(a, b) == a[1] * b[2] <= b[1] * a[2]
IsZero(a) == a[1] = 0

-----------------------------------------------------------------------------
(* Python's sorted(): an insertion sort of a sequence under an order. *)

RECURSIVE InsertSorted(_, _)
InsertSorted(x, s) ==
    IF s = <<>> THEN <<x>>
    ELSE IF x < Head(s) THEN <<x>> \o s
    ELSE <<Head(s)>> \o InsertSorted(x, Tail(s))

RECURSIVE InsertionSort(_)
InsertionSort(s) ==
    IF s = <<>> THEN <<>> ELSE InsertSorted(Head(s), InsertionSort(Tail(s)))

Unsorted(s) == s

Sorted(s) == InsertionSort(s)

\* every arrangement of a finite set as a sequence: what iterdir()/glob() may yield
Orders(S) ==
    {o \in [1..Cardinality(S) -> S] : \A i, j \in 1..Cardinality(S) : i # j => o[i] # o[j]}

-----------------------------------------------------------------------------
(* get_img_files: the Sequence Scanner. *)

\* the frames of one img1 folder, as glob("*.jpg") yields them and sorted() orders them
SeqImages(s, globOrder) ==
    LET images == Sorted(globOrder[s])
    IN  [i \in 1..Len(images) |-> <<s, images[i]>>]

RECURSIVE ExtendAll(_, _, _)
ExtendAll(dirs, t, globOrder) ==
    IF dirs = <<>> THEN <<>>
    ELSE (IF t[Head(dirs)].img1 THEN SeqImages(Head(dirs), globOrder) ELSE <<>>)
         \o ExtendAll(Tail(dirs), t, globOrder)

\* iterOrder: the order iterdir() lists the entries of the split directory in;
\* globOrder[s]: the order glob() lists the frames of sequence s in
GetImgFiles(t, iterOrder, globOrder) ==
    LET IsDir(d) == t[d].isdir
        sequence_dirs == SelectSeq(iterOrder, IsDir)
    IN  ExtendAll(Sorted(sequence_dirs), t, globOrder)

\* the orders the file system may list a tree in
IterOrders(t) == Orders(DOMAIN t)
RECURSIVE GlobOrdersOf(_, _)
GlobOrdersOf(S, t) ==
    IF S = {} THEN {<<>>}
    ELSE LET s == CHOOSE x \in S : TRUE
         IN  {(s :> o) @@ g : o \in Orders(t[s].frames), g \in GlobOrdersOf(S \ {s}, t)}
GlobOrders(t) == GlobOrdersOf(DOMAIN t, t)

-----------------------------------------------------------------------------
(* The annotation JSON of a sequence.  A Python dict is a function on the   *)
(* keys it holds; a key the dict lacks is outside its DOMAIN.               *)

EmptyDict == <<>>
Has(d, k) == k \in DOMAIN d
Get(d, k, default) == IF k \in DOMAIN d THEN d[k] ELSE default

NoJson == [kind |-> "absent"]
BadJson == [kind |-> "bad"]

\* frame dimensions used by the generated documents
FrameH == Num(4)
FrameW == Num(8)

ImageEntry(f) == [file_name |-> f, image_id |-> f, height |-> FrameH, width |-> FrameW]

AbsBox == [x |-> Num(2), y |-> Num(1), w |-> Num(4), h |-> Num(2)]
NormBox == [x_center |-> <<1, 2>>, y_center |-> <<1, 2>>, w |-> <<1, 4>>, h |-> <<1, 2>>]
FlatBox == [x |-> Num(1), y |-> Num(1), w |-> Num(0), h |-> Num(3)]
FullBox == [x |-> Num(0), y |-> Num(0), w |-> Num(8), h |-> Num(4)]

\* the images entries a frame of a given kind has in the document
KindImages(f, k) ==
    CASE k = "noinfo" -> <<>>
      [] k = "nodims" -> <<[file_name |-> f, image_id |-> f, width |-> FrameW]>>
      [] k = "dup"    -> <<ImageEntry(f),
                           [file_name |-> f, image_id |-> f + 100,
                            height |-> Num(2), width |-> Num(2)]>>
      [] OTHER        -> <<ImageEntry(f)>>

\* the annotations a frame of a given kind has in the document
KindAnns(f, k) ==
    CASE k = "abs"     -> <<[image_id |-> f, category_id |-> 1, bbox_image |-> AbsBox]>>
      [] k = "nodims"  -> <<[image_id |-> f, category_id |-> 1, bbox_image |-> AbsBox]>>
      [] k = "full"    -> <<[image_id |-> f, category_id |-> 2, bbox_image |-> FullBox]>>
      [] k = "dup"     -> <<[image_id |-> f, category_id |-> 1, bbox_image |-> AbsBox],
                            [image_id |-> f + 100, category_id |-> 2, bbox_image |-> NormBox]>>
      [] k = "mixed"   -> <<[image_id |-> f, category_id |-> 0, bbox_image |-> NormBox],
                            [image_id |-> f, category_id |-> 2, bbox_image |-> FlatBox],
                            [image_id |-> f, category_id |-> 3],
                            [image_id |-> f, category_id |-> 1, bbox_image |-> FullBox]>>
      [] k = "dropped" -> <<[image_id |-> f, category_id |-> 1, bbox_image |-> FlatBox]>>
      [] k = "nocat"   -> <<[image_id |-> f, bbox_image |-> AbsBox]>>
      [] OTHER         -> <<>>

RECURSIVE ImagesOfKinds(_, _)
ImagesOfKinds(kinds, f) ==
    IF f > Len(kinds) THEN <<>>
    ELSE KindImages(f, kinds[f]) \o ImagesOfKinds(kinds, f + 1)

RECURSIVE AnnsOfKinds(_, _)
AnnsOfKinds(kinds, f) ==
    IF f > Len(kinds) THEN <<>>
    ELSE KindAnns(f, kinds[f]) \o AnnsOfKinds(kinds, f + 1)

\* a well-formed document whose frame f is of kind kinds[f]
MkJson(kinds) ==
    [kind |-> "doc",
     data |-> [images |-> ImagesOfKinds(kinds, 1),
               annotations |-> AnnsOfKinds(kinds, 1)]]

-----------------------------------------------------------------------------
(* cache_labels: the Label Builder. *)

\* a variant that takes a box for absolute pixels only when w and h are both above 1
NormalizeAnnBothAbove(ann, h, w) ==
    LET bbox == Get(ann, "bbox_image", EmptyDict)
        bw0 == Get(bbox, "w", Num(0))
        bh0 == Get(bbox, "h", Num(0))
        absolute == RGt(bw0, Num(1)) /\ RGt(bh0, Num(1))
        xc == IF absolute
              THEN RDiv(RAdd(Get(bbox, "x", Num(0)), RDiv(bw0, Num(2))), w)
              ELSE Get(bbox, "x_center", Num(0))
        yc == IF absolute
              THEN RDiv(RAdd(Get(bbox, "y", Num(0)), RDiv(bh0, Num(2))), h)
              ELSE Get(bbox, "y_center", Num(0))
        bw == IF absolute THEN RDiv(bw0, w) ELSE bw0
        bh == IF absolute THEN RDiv(bh0, h) ELSE bh0
    IN  IF bbox = EmptyDict THEN [out |-> "skip"]
        ELSE IF absolute /\ (IsZero(w) \/ IsZero(h)) THEN [out |-> "raise"]
        ELSE IF RLe(bw, Num(0)) \/ RLe(bh, Num(0)) THEN [out |-> "skip"]
        ELSE [out |-> "row", row |-> <<ann.category_id, xc, yc, bw, bh>>]

\* lines 210-227 for one annotation whose category_id is present: the outcome is
\* "raise" (an exception), "skip" (no row appended) or "row"
NormalizeAnn(ann, h, w) ==
    LET bbox == Get(ann, "bbox_image", EmptyDict)
        bw0 == Get(bbox, "w", Num(0))
        bh0 == Get(bbox, "h", Num(0))
        absolute == RGt(bw0, Num(1)) \/ RGt(bh0, Num(1))
        xc == IF absolute
              THEN RDiv(RAdd(Get(bbox, "x", Num(0)), RDiv(bw0, Num(2))), w)
              ELSE Get(bbox, "x_center", Num(0))
        yc == IF absolute
              THEN RDiv(RAdd(Get(bbox, "y", Num(0)), RDiv(bh0, Num(2))), h)
              ELSE Get(bbox, "y_center", Num(0))
        bw == IF absolute THEN RDiv(bw0, w) ELSE bw0
        bh == IF absolute THEN RDiv(bh0, h) ELSE bh0
    IN  IF bbox = EmptyDict THEN [out |-> "skip"]
        ELSE IF absolute /\ (IsZero(w) \/ IsZero(h)) THEN [out |-> "raise"]
        ELSE IF RLe(bw, Num(0)) \/ RLe(bh, Num(0)) THEN [out |-> "skip"]
        ELSE [out |-> "row", row |-> <<ann.category_id, xc, yc, bw, bh>>]

RECURSIVE BoxRows(_, _, _, _)

\* a variant in which an invalid box also drops the boxes kept before it
BoxRowsDropAll(r, anns, h, w, rows) ==
    CASE r.out = "raise" -> [exc |-> TRUE, rows |-> rows]
      [] r.out = "skip"  -> BoxRows(Tail(anns), h, w, <<>>)
      [] OTHER -> BoxRows(Tail(anns), h, w, Append(rows, r.row))

\* lines 223-227: the outcome r of the first annotation of anns is acted on
BoxRowsStep(r, anns, h, w, rows) ==
    CASE r.out = "raise" -> [exc |-> TRUE, rows |-> rows]
      [] r.out = "skip"  -> BoxRows(Tail(anns), h, w, rows)
      [] OTHER -> BoxRows(Tail(anns), h, w, Append(rows, r.row))

\* the loop of lines 201-227 over the annotations of one frame
BoxRows(anns, h, w, rows) ==
    IF anns = <<>> THEN [exc |-> FALSE, rows |-> rows]
    ELSE IF ~Has(Head(anns), "category_id") THEN [exc |-> TRUE, rows |-> rows]
    ELSE BoxRowsStep(NormalizeAnn(Head(anns), h, w), anns, h, w, rows)

\* a variant in which the last matching images entry wins
LastInfo(images, name) ==
    LET Match(e) == e.file_name = name
        all == SelectSeq(images, Match)
    IN  IF all = <<>> THEN <<>> ELSE <<all[Len(all)]>>

\* lines 175-179: the first images entry whose file_name is the frame's, as a
\* sequence of at most one entry
RECURSIVE FirstInfo(_, _)
FirstInfo(images, name) ==
    IF images = <<>> THEN <<>>
    ELSE IF Head(images).file_name = name THEN <<Head(images)>>
    ELSE FirstInfo(Tail(images), name)

\* lines 162-164: img_annotations[image_id], in document order
AnnsOfImage(data, id) ==
    LET Match(a) == a.image_id = id IN SelectSeq(data.annotations, Match)

\* lines 237-246: the label of a frame with the rows lb
MkLabel(file, h, w, lb) ==
    [im_file |-> file,
     shape |-> <<h, w>>,
     cls |-> [i \in 1..Len(lb) |-> lb[i][1]],
     bboxes |-> [i \in 1..Len(lb) |-> <<lb[i][2], lb[i][3], lb[i][4], lb[i][5]>>],
     normalized |-> TRUE]

\* a variant that counts a frame whose boxes were all dropped as missing
EmitLabelDroppedIsMissing(file, h, w, anns, b, acc) ==
    IF anns = <<>> THEN [exc |-> FALSE, acc |-> [acc EXCEPT !.ne = @ + 1]]
    ELSE IF b.exc THEN [exc |-> TRUE, acc |-> acc]
    ELSE IF b.rows = <<>> THEN [exc |-> FALSE, acc |-> [acc EXCEPT !.nm = @ + 1]]
    ELSE [exc |-> FALSE,
          acc |-> [acc EXCEPT !.nf = @ + 1,
                              !.labels = Append(@, MkLabel(file, h, w, b.rows))]]

\* lines 193-247: the frame has the annotations anns, which gave the rows b
EmitLabel(file, h, w, anns, b, acc) ==
    IF anns = <<>> THEN [exc |-> FALSE, acc |-> [acc EXCEPT !.ne = @ + 1]]
    ELSE IF b.exc THEN [exc |-> TRUE, acc |-> acc]
    ELSE IF b.rows = <<>> THEN [exc |-> FALSE, acc |-> [acc EXCEPT !.ne = @ + 1]]
    ELSE [exc |-> FALSE,
          acc |-> [acc EXCEPT !.nf = @ + 1,
                              !.labels = Append(@, MkLabel(file, h, w, b.rows))]]

\* lines 181-247: info holds the matching images entry, if any
ProcessMatched(file, info, data, acc) ==
    IF info = <<>> THEN [exc |-> FALSE, acc |-> [acc EXCEPT !.nm = @ + 1]]
    ELSE IF ~(Has(info[1], "height") /\ Has(info[1], "width") /\ Has(info[1], "image_id"))
    THEN [exc |-> TRUE, acc |-> acc]
    ELSE EmitLabel(file, info[1].height, info[1].width,
                   AnnsOfImage(data, info[1].image_id),
                   BoxRows(AnnsOfImage(data, info[1].image_id),
                           info[1].height, info[1].width, <<>>),
                   acc)

\* lines 171-247 for one frame: acc with the frame counted, or exc
ProcessFrame(file, data, acc) ==
    ProcessMatched(file, FirstInfo(data.images, file[2]), data, acc)

\* lines 170-247: the frames of one sequence, up to the first exception
RECURSIVE ProcessFrames(_, _, _)

\* a variant in which the loop goes on after a frame that raised
AfterFrameGoesOn(r, files, data) == ProcessFrames(Tail(files), data, r.acc)

\* r is the outcome of the first frame of files
AfterFrame(r, files, data) ==
    IF r.exc THEN r ELSE ProcessFrames(Tail(files), data, r.acc)

ProcessFrames(files, data, acc) ==
    IF files = <<>> THEN [exc |-> FALSE, acc |-> acc]
    ELSE AfterFrame(ProcessFrame(Head(files), data, acc), files, data)

\* a handler that lets the exception escape cache_labels
SeqErrorEscapes(acc, s) == [acc EXCEPT !.aborted = TRUE]

\* lines 249-251: the except clause of one sequence
OnSeqError(acc, s) ==
    [acc EXCEPT !.nc = @ + 1, !.msgs = Append(@, <<"Error processing", s>>)]

\* lines 158-167: json.load and the two mappings raise on an undecodable file
\* or on a document without the keys they read
PreludeRaises(j) ==
    \/ j.kind = "bad"
    \/ ~(Has(j.data, "annotations") /\ Has(j.data, "images"))
    \/ \E i \in DOMAIN j.data.annotations : ~Has(j.data.annotations[i], "image_id")
    \/ \E i \in DOMAIN j.data.images : ~Has(j.data.images[i], "image_id")

\* a variant that counts a sequence without JSON as one missing frame
MissingJsonCountsOnce(acc, s, files) ==
    [acc EXCEPT !.nm = @ + 1,
                !.msgs = Append(@, <<"Missing JSON file for sequence", s>>)]

\* a variant that counts a sequence without JSON as corrupt
MissingJsonIsCorrupt(acc, s, files) ==
    [acc EXCEPT !.nc = @ + 1,
                !.msgs = Append(@, <<"Missing JSON file for sequence", s>>)]

\* lines 151-154: a sequence without a JSON file
MissingJson(acc, s, files) ==
    [acc EXCEPT !.nm = @ + Len(files),
                !.msgs = Append(@, <<"Missing JSON file for sequence", s>>)]

\* lines 249-251: r is the outcome of the frames of sequence s
AfterSeq(r, s) == IF r.exc THEN OnSeqError(r.acc, s) ELSE r.acc

\* lines 151-251 for one sequence; files are its frames in im_files order
ProcessSeq(s, files, js, acc) ==
    IF js[s].kind = "absent" THEN MissingJson(acc, s, files)
    ELSE IF PreludeRaises(js[s]) THEN OnSeqError(acc, s)
    ELSE AfterSeq(ProcessFrames(files, js[s].data, acc), s)

\* a variant that does not group the frames by sequence
FilesOfSeqUngrouped(files, s) == files

\* lines 135-140: img_by_sequence[s]
FilesOfSeq(files, s) == LET In(p) == p[1] = s IN SelectSeq(files, In)

SetToSeq(S) == CHOOSE o \in Orders(S) : TRUE

\* lines 150-251: the sequences in sorted name order; stops if an exception escaped
RECURSIVE ProcessSeqs(_, _, _, _)
ProcessSeqs(names, files, js, acc) ==
    IF names = <<>> \/ acc.aborted THEN acc
    ELSE ProcessSeqs(Tail(names), files, js,
                     ProcessSeq(Head(names), FilesOfSeq(files, Head(names)), js, acc))

BuildAcc(files, js) ==
    ProcessSeqs(Sorted(SetToSeq({files[i][1] : i \in DOMAIN files})), files, js,
                [labels |-> <<>>, nf |-> 0, nm |-> 0, ne |-> 0, nc |-> 0,
                 msgs |-> <<>>, aborted |-> FALSE])

-----------------------------------------------------------------------------
(* The cache file and get_labels. *)

DATASET_CACHE_VERSION == "1.0.3"
OlderVersion == "1.0.2"

\* get_hash: a fingerprint of the sizes of the listed files that exist and of
\* the listed paths in order (every frame file has size 1)
GetHash(files, t) ==
    [size |-> Cardinality({i \in DOMAIN files : files[i][2] \in t[files[i][1]].frames}),
     paths |-> files]

\* save_dataset_cache_file: stamps the version into x and writes x
Stamped(x, version) ==
    [k \in DOMAIN x \cup {"version"} |-> IF k = "version" THEN version ELSE x[k]]

SaveCache(x, version) == [cacheFile |-> <<Stamped(x, version)>>, x |-> Stamped(x, version)]

\* a variant that leaves no cache file when the build found no label
FinishBuildSavesIfFound(acc, files, t) ==
    IF acc.aborted THEN [raised |-> TRUE]
    ELSE [raised |-> FALSE,
          saved |-> [cacheFile |-> IF acc.nf = 0 THEN <<>>
                                   ELSE SaveCache([labels |-> acc.labels,
                                                   hash |-> GetHash(files, t),
                                                   results |-> <<acc.nf, acc.nm, acc.ne,
                                                                 acc.nc, Len(files)>>,
                                                   msgs |-> acc.msgs],
                                                  DATASET_CACHE_VERSION).cacheFile,
                     x |-> SaveCache([labels |-> acc.labels,
                                      hash |-> GetHash(files, t),
                                      results |-> <<acc.nf, acc.nm, acc.ne, acc.nc, Len(files)>>,
                                      msgs |-> acc.msgs],
                                     DATASET_CACHE_VERSION).x]]

\* lines 259-269: the dict x of the counts acc, saved and returned
FinishBuild(acc, files, t) ==
    IF acc.aborted THEN [raised |-> TRUE]
    ELSE [raised |-> FALSE,
          saved |-> SaveCache([labels |-> acc.labels,
                               hash |-> GetHash(files, t),
                               results |-> <<acc.nf, acc.nm, acc.ne, acc.nc, Len(files)>>,
                               msgs |-> acc.msgs],
                              DATASET_CACHE_VERSION)]

\* lines 128-269
CacheLabels(files, js, t) == FinishBuild(BuildAcc(files, js), files, t)

\* a check that compares the version only
CacheCheckNoHash(cf, files, t) ==
    IF cf = <<>> THEN "miss"
    ELSE IF ~Has(cf[1], "version") THEN "KeyError"
    ELSE IF cf[1].version # DATASET_CACHE_VERSION THEN "miss"
    ELSE "hit"

\* lines 280-285: "hit", "miss" (an exception the except clause catches) or the
\* exception that escapes
CacheCheck(cf, files, t) ==
    IF cf = <<>> THEN "miss"
    ELSE IF ~Has(cf[1], "version") THEN "KeyError"
    ELSE IF cf[1].version # DATASET_CACHE_VERSION THEN "miss"
    ELSE IF ~Has(cf[1], "hash") THEN "KeyError"
    ELSE IF cf[1].hash # GetHash(files, t) THEN "miss"
    ELSE "hit"

NeverRaisesOnEmpty(labels) == FALSE

\* lines 299-302
RaisesOnEmpty(labels) == labels = <<>>

\* a variant without the assignment of line 304
ReadCacheKeepsFiles(cache, hit, built, files, cf) ==
    IF ~(Has(cache, "results") /\ Has(cache, "msgs") /\ Has(cache, "hash")
         /\ Has(cache, "version") /\ Has(cache, "labels"))
    THEN [exc |-> "KeyError", hit |-> hit, built |-> built, labels |-> <<>>,
          im_files |-> files, cacheFile |-> cf]
    ELSE IF RaisesOnEmpty(cache.labels)
    THEN [exc |-> "RuntimeError", hit |-> hit, built |-> built, labels |-> <<>>,
          im_files |-> files, cacheFile |-> cf]
    ELSE [exc |-> "none", hit |-> hit, built |-> built, labels |-> cache.labels,
          im_files |-> files, cacheFile |-> cf]

\* lines 288-313 on the dict cache; hit is the flag exists
ReadCache(cache, hit, built, files, cf) ==
    IF ~(Has(cache, "results") /\ Has(cache, "msgs") /\ Has(cache, "hash")
         /\ Has(cache, "version") /\ Has(cache, "labels"))
    THEN [exc |-> "KeyError", hit |-> hit, built |-> built, labels |-> <<>>,
          im_files |-> files, cacheFile |-> cf]
    ELSE IF RaisesOnEmpty(cache.labels)
    THEN [exc |-> "RuntimeError", hit |-> hit, built |-> built, labels |-> <<>>,
          im_files |-> files, cacheFile |-> cf]
    ELSE [exc |-> "none", hit |-> hit, built |-> built, labels |-> cache.labels,
          im_files |-> [i \in DOMAIN cache.labels |-> cache.labels[i].im_file],
          cacheFile |-> cf]

\* lines 278-313: the outcome of get_labels on an engine whose frame list is files
\* line 285 and on: b is what cache_labels gave
AfterBuild(b, files, cf) ==
    IF b.raised
    THEN [exc |-> "SequenceError", hit |-> FALSE, built |-> FALSE,
          labels |-> <<>>, im_files |-> files, cacheFile |-> cf]
    ELSE ReadCache(b.saved.x, FALSE, TRUE, files, b.saved.cacheFile)

\* a variant that runs cache_labels after a hit as well
AfterCheckAlwaysBuilds(check, files, cf, js, t) ==
    CASE check \in {"hit", "miss"} -> AfterBuild(CacheLabels(files, js, t), files, cf)
      [] OTHER -> [exc |-> check, hit |-> FALSE, built |-> FALSE, labels |-> <<>>,
                   im_files |-> files, cacheFile |-> cf]

\* lines 280-313: check is the outcome of the cache check
AfterCheck(check, files, cf, js, t) ==
    CASE check = "hit" -> ReadCache(cf[1], TRUE, FALSE, files, cf)
      [] check = "miss" -> AfterBuild(CacheLabels(files, js, t), files, cf)
      [] OTHER -> [exc |-> check, hit |-> FALSE, built |-> FALSE, labels |-> <<>>,
                   im_files |-> files, cacheFile |-> cf]

GetLabelsOutcome(files, cf, js, t) == AfterCheck(CacheCheck(cf, files, t), files, cf, js, t)

-----------------------------------------------------------------------------
(* to_coco: the conversion of one stored box. *)

\* lines 348-366: bbox and area of the annotation of box <<x_c, y_c, bw, bh>>
\* of a label of shape (h, w)
CocoBox(box, h, w, normalized) ==
    LET x_c == box[1]
        y_c == box[2]
        bw == box[3]
        bh == box[4]
        x_abs == IF normalized THEN RMul(RSub(x_c, RDiv(bw, Num(2))), w)
                 ELSE RSub(x_c, RDiv(bw, Num(2)))
        y_abs == IF normalized THEN RMul(RSub(y_c, RDiv(bh, Num(2))), h)
                 ELSE RSub(y_c, RDiv(bh, Num(2)))
        bw_abs == IF normalized THEN RMul(bw, w) ELSE bw
        bh_abs == IF normalized THEN RMul(bh, h) ELSE bh
    IN  [bbox |-> <<x_abs, y_abs, bw_abs, bh_abs>>, area |-> RMul(bw_abs, bh_abs)]

\* int() of a number: truncation toward zero
IntOf(r) == IF r[1] >= 0 THEN r[1] \div r[2] ELSE -((-r[1]) \div r[2])

\* lines 334-341: the images entry of the label numbered img_id
CocoImage(label, img_id) ==
    [id |-> img_id,
     file_name |-> label.im_file[2],
     height |-> IntOf(label.shape[1]),
     width |-> IntOf(label.shape[2])]

\* a variant that gives every box the class of the first box of its label
CocoAnnFirstClass(label, i, img_id, ann_id) ==
    [id |-> ann_id,
     image_id |-> img_id,
     category_id |-> label.cls[1],
     bbox |-> CocoBox(label.bboxes[i], label.shape[1], label.shape[2],
                      label.normalized).bbox,
     area |-> CocoBox(label.bboxes[i], label.shape[1], label.shape[2],
                      label.normalized).area,
     iscrowd |-> 0]

\* lines 348-370: the annotation of box i of the label numbered img_id
CocoAnn(label, i, img_id, ann_id) ==
    [id |-> ann_id,
     image_id |-> img_id,
     category_id |-> label.cls[i],
     bbox |-> CocoBox(label.bboxes[i], label.shape[1], label.shape[2],
                      label.normalized).bbox,
     area |-> CocoBox(label.bboxes[i], label.shape[1], label.shape[2],
                      label.normalized).area,
     iscrowd |-> 0]

\* lines 347-371: the annotations of one label, ann_id being the id of its first box
LabelAnns(label, img_id, ann_id) ==
    [i \in 1..Len(label.cls) |-> CocoAnn(label, i, img_id, ann_id + i - 1)]

\* a variant in which the annotation ids start again at 1 for every image
AnnIdRestarts(label, ann_id) == 1

\* line 371, once per box of the label: ann_id after the label
AnnIdAfter(label, ann_id) == ann_id + Len(label.cls)

\* lines 332-371: the annotations of the labels numbered img_id and up
RECURSIVE CocoAnns(_, _, _)
CocoAnns(labels, img_id, ann_id) ==
    IF img_id > Len(labels) THEN <<>>
    ELSE LabelAnns(labels[img_id], img_id, ann_id)
         \o CocoAnns(labels, img_id + 1, AnnIdAfter(labels[img_id], ann_id))

\* lines 328-383: the structure to_coco returns and writes (the categories come
\* from the dataset configuration and the info block holds the date)
MkCoco(labels) ==
    [images |-> [i \in 1..Len(labels) |-> CocoImage(labels[i], i)],
     annotations |-> CocoAnns(labels, 1, 1)]

\* line 401: cv2.imread gives an image when the file is there, else None
Readable(file, t) == file[2] \in t[file[1]].frames

\* lines 396-441 on the labels get_labels returned: the label selected and the
\* result, "none" (None) or "path" (the file written)
Visualize(labels, index, t) ==
    IF labels = <<>> THEN [result |-> "none", selected |-> <<>>]
    ELSE [result |-> IF Readable(labels[(index % Len(labels)) + 1].im_file, t)
                     THEN "path" ELSE "none",
          selected |-> <<labels[(index % Len(labels)) + 1].im_file>>]

-----------------------------------------------------------------------------
(* The state machine: one engine over one split directory, and the          *)
(* environment that changes the split directory and the cache file.         *)

NoCall == [op |-> "none"]
NoGeo == [pc |-> "off"]

\* BaseDataset.__init__ up to get_img_files: a new engine instance
DoScan(iterOrder, globOrder) ==
    /\ im_files' = GetImgFiles(tree, iterOrder, globOrder)
    /\ inst' = "scanned"
    /\ last' = NoCall
    /\ UNCHANGED <<tree, jsons, cacheFile, calls, edits, builtTree, geo, outFile, serverVars>>

Scan ==
    /\ \E io \in IterOrders(tree), go \in GlobOrders(tree) : DoScan(io, go)
    /\ dirOrder' = <<>>

\* the engine and the cache file after a get_labels of outcome r
Effects(r) ==
    /\ cacheFile' = r.cacheFile
    /\ im_files' = r.im_files
    /\ inst' = IF r.exc = "none" THEN "loaded" ELSE inst
    /\ builtTree' = IF r.built THEN <<tree>> ELSE builtTree

\* the record of a call whose get_labels had the outcome r
CallRecord(op, r) ==
    [op |-> op, fresh |-> inst = "scanned",
     pre_cache |-> cacheFile, pre_files |-> im_files,
     pre_built |-> builtTree,
     exc |-> r.exc, hit |-> r.hit, built |-> r.built,
     labels |-> r.labels]

\* the engine, the cache file and the record of the call after outcome r
Returns(r) ==
    /\ Effects(r)
    /\ last' = CallRecord("get_labels", r)

\* get_labels, called by the constructor and by to_coco and visualize_sample
GetLabels ==
    /\ inst # "none"
    /\ calls < MaxCalls
    /\ Returns(GetLabelsOutcome(im_files, cacheFile, jsons, tree))
    /\ calls' = calls + 1
    /\ UNCHANGED <<tree, jsons, dirOrder, edits, geo, outFile, serverVars>>

EditTree(newTree) ==
    /\ edits < MaxEdits
    /\ tree' = newTree
    /\ edits' = edits + 1
    /\ last' = NoCall
    /\ inst' = IF inst = "scanned" THEN "stale" ELSE inst
    /\ UNCHANGED <<jsons, cacheFile, im_files, dirOrder, calls, builtTree, geo, outFile, serverVars>>

AddFrame ==
    \E s \in DOMAIN tree, f \in FrameNames :
        /\ tree[s].img1 /\ f \notin tree[s].frames
        /\ EditTree([tree EXCEPT ![s].frames = @ \cup {f}])

RemoveFrame ==
    \E s \in DOMAIN tree, f \in FrameNames :
        /\ f \in tree[s].frames
        /\ EditTree([tree EXCEPT ![s].frames = @ \ {f}])

RenameFrame ==
    \E s \in DOMAIN tree, f \in FrameNames, g \in FrameNames :
        /\ f \in tree[s].frames /\ g \notin tree[s].frames
        /\ EditTree([tree EXCEPT ![s].frames = (@ \ {f}) \cup {g}])

EditCache(newCache) ==
    /\ edits < MaxEdits
    /\ cacheFile' = newCache
    /\ builtTree' = <<>>
    /\ edits' = edits + 1
    /\ last' = NoCall
    /\ UNCHANGED <<tree, jsons, im_files, inst, dirOrder, calls, geo, outFile, serverVars>>

DeleteCache == cacheFile # <<>> /\ EditCache(<<>>)

\* a cache file that decodes to a dict without one of its fields
StripField ==
    \E k \in {"version", "hash"} :
        /\ cacheFile # <<>> /\ Has(cacheFile[1], k)
        /\ EditCache(<<[j \in DOMAIN cacheFile[1] \ {k} |-> cacheFile[1][j]]>>)

\* a cache file left by an engine of an older format version
OldVersionCache ==
    /\ cacheFile # <<>> /\ Has(cacheFile[1], "version")
    /\ cacheFile[1].version = DATASET_CACHE_VERSION
    /\ EditCache(<<[cacheFile[1] EXCEPT !.version = OlderVersion]>>)

\* the annotation file of a sequence is removed
DeleteJson ==
    \E s \in DOMAIN jsons :
        /\ edits < MaxEdits
        /\ jsons[s].kind # "absent"
        /\ jsons' = [jsons EXCEPT ![s] = NoJson]
        /\ builtTree' = <<>>
        /\ edits' = edits + 1
        /\ last' = NoCall
        /\ UNCHANGED <<tree, cacheFile, im_files, inst, dirOrder, calls, geo, outFile, serverVars>>

\* to_coco on a constructed engine: line 317 calls get_labels, an exception of
\* which ends the call; lines 385-388 write the structure at save_path
ToCocoDone(r) ==
    /\ Effects(r)
    /\ last' = CallRecord("to_coco", r)
                 @@ [pre_out |-> outFile,
                     coco |-> IF r.exc = "none" THEN <<MkCoco(r.labels)>> ELSE <<>>]
    /\ outFile' = IF r.exc = "none" THEN <<[kind |-> "coco", coco |-> MkCoco(r.labels)]>>
                  ELSE outFile

ToCoco ==
    /\ inst = "loaded"
    /\ calls < MaxCalls
    /\ ToCocoDone(GetLabelsOutcome(im_files, cacheFile, jsons, tree))
    /\ calls' = calls + 1
    /\ UNCHANGED <<tree, jsons, dirOrder, edits, geo, serverVars>>

\* visualize_sample on a constructed engine: line 395 calls get_labels, an
\* exception of which ends the call; line 439 writes the picture
VisualizeDone(r, index, v) ==
    /\ Effects(r)
    /\ last' = CallRecord("visualize_sample", r)
                 @@ [pre_out |-> outFile, index |-> index,
                     result |-> IF r.exc = "none" THEN v.result ELSE "raised",
                     selected |-> IF r.exc = "none" THEN v.selected ELSE <<>>]
    /\ outFile' = IF r.exc = "none" /\ v.result = "path"
                  THEN <<[kind |-> "picture", of |-> v.selected[1]]>>
                  ELSE outFile

VisualizeAfter(r, index) == VisualizeDone(r, index, Visualize(r.labels, index, tree))

VisualizeSample ==
    \E index \in (0 - 1)..MaxIndex :
        /\ inst = "loaded"
        /\ calls < MaxCalls
        /\ VisualizeAfter(GetLabelsOutcome(im_files, cacheFile, jsons, tree), index)
        /\ calls' = calls + 1
        /\ UNCHANGED <<tree, jsons, dirOrder, edits, geo, serverVars>>

-----------------------------------------------------------------------------
(* The HTTP server of src/app/server.py: the license gate. *)

MaxRequests == 4
MaxKeyLen == 11

\* line 98: the shortest key the offline fallback accepts
FallbackMinLen == 10
\* line 108: the days a license lasts
LicenseDays == 30

None == "None"

\* lines 50-55: license_state as the module is imported
LicenseStateAtImport ==
    [active |-> FALSE, key |-> None, activated_at |-> None, expires_at |-> None]

ServerStarted ==
    /\ license_state = LicenseStateAtImport
    /\ temp_dirs = 0
    /\ inflight = <<>>
    /\ responses = <<>>
    /\ now = 0

\* A key text is its leading and trailing blanks, the number of characters
\* between them and whether one of these is a '-'.
KeyLens == {0, 1, FallbackMinLen - 1, FallbackMinLen, MaxKeyLen}

KeyTexts ==
    {k \in [blanks : 0..1, len : KeyLens, dash : BOOLEAN] : k.dash => k.len >= 1}

EmptyText == [blanks |-> 0, len |-> 0, dash |-> FALSE]

\* str.strip()
Strip(k) == [k EXCEPT !.blanks = 0]

\* len(key)
TextLen(k) == k.blanks + k.len

\* a request body: not JSON at all, a JSON object without "key", or one with it
Bodies ==
    {[json |-> FALSE, key |-> <<>>], [json |-> TRUE, key |-> <<>>]}
    \cup {[json |-> TRUE, key |-> <<k>>] : k \in KeyTexts}

\* line 83: data.get("key", "").strip()
KeyOf(body) == IF body.key = <<>> THEN EmptyText ELSE Strip(body.key[1])

\* validate_license(key): what the license server answers, or an exception
ValidateOutcomes == {"True", "False", "raises"}

\* line 98: the offline fallback
FallbackAccepts(key) == TextLen(key) >= FallbackMinLen /\ key.dash

\* lines 88-101
IsValid(answer, key) == answer = "True" \/ FallbackAccepts(key)

\* lines 104-109
Activated(key, t) ==
    [active |-> TRUE, key |-> key, activated_at |-> t, expires_at |-> t + LicenseDays]

\* activate_license: the status it answers and license_state as it leaves it
ActivateOutcome(body, answer, ls, t) ==
    IF ~body.json
    THEN [status |-> 500, state |-> ls]
    ELSE IF TextLen(KeyOf(body)) = 0
    THEN [status |-> 400, state |-> ls]
    ELSE IF IsValid(answer, KeyOf(body))
    THEN [status |-> 200, state |-> Activated(KeyOf(body), t)]
    ELSE [status |-> 403, state |-> ls]

\* requests begun so far
Begun == Len(responses) + Len(inflight)

\* the answer to a request: seen is license_state as the handler found it,
\* after is license_state as it is when the answer is sent, begun the number of
\* requests answered before this one began, made the number of directories it
\* created
Answer(req, status, seen, after, begun, made) ==
    [req |-> req, status |-> status, seen |-> seen, after |-> after,
     begun |-> begun, made |-> made]

ActivateLicense ==
    \E body \in Bodies, answer \in ValidateOutcomes :
        /\ Begun < MaxRequests
        /\ license_state' = ActivateOutcome(body, answer, license_state, now).state
        /\ responses' = Append(responses,
                               Answer("activate",
                                      ActivateOutcome(body, answer, license_state, now).status,
                                      license_state,
                                      ActivateOutcome(body, answer, license_state, now).state,
                                      Len(responses), 0))
        /\ now' = now + 1
        /\ UNCHANGED <<temp_dirs, inflight>>
        /\ UNCHANGED datasetVars

\* line 131
NeverRefused(ls) == FALSE

Refused(ls) == ~ls.active

\* the uploaded file's name: a video extension, another one, or no name
VideoNames == {"video", "other", "none"}

\* what the disk lets analyze_video do at lines 140-144
DiskOutcomes == {"ok", "mkdtemp_fails", "open_fails"}

\* analyze_video up to its await at line 145: the status it answers (0 while it
\* is suspended), the directories it made
AnalyzeOutcome(ls, name, disk) ==
    IF Refused(ls) THEN [status |-> 403, made |-> 0]
    ELSE IF name = "none" THEN [status |-> 500, made |-> 0]
    ELSE IF name = "other" THEN [status |-> 400, made |-> 0]
    ELSE IF disk = "mkdtemp_fails" THEN [status |-> 500, made |-> 0]
    ELSE IF disk = "open_fails" THEN [status |-> 500, made |-> 1]
    ELSE [status |-> 0, made |-> 1]

AnalyzeVideo ==
    \E name \in VideoNames, disk \in DiskOutcomes :
        /\ Begun < MaxRequests
        /\ inflight = <<>>
        /\ temp_dirs' = temp_dirs + AnalyzeOutcome(license_state, name, disk).made
        /\ IF AnalyzeOutcome(license_state, name, disk).status = 0
           THEN /\ inflight' = <<[seen |-> license_state, begun |-> Len(responses)]>>
                /\ UNCHANGED responses
           ELSE /\ responses' = Append(responses,
                                       Answer("analyze",
                                              AnalyzeOutcome(license_state, name, disk).status,
                                              license_state, license_state,
                                              Len(responses),
                                              AnalyzeOutcome(license_state, name, disk).made))
                /\ UNCHANGED inflight
        /\ now' = now + 1
        /\ UNCHANGED license_state
        /\ UNCHANGED datasetVars

\* analyze_video from line 145 on: the upload is read, the results are written
\* and returned, or an exception turns into 500
AnalyzeVideoResumes ==
    \E ok \in BOOLEAN :
        /\ inflight # <<>>
        /\ responses' = Append(responses,
                               Answer("analyze", IF ok THEN 200 ELSE 500,
                                      inflight[1].seen, license_state,
                                      inflight[1].begun, 1))
        /\ inflight' = <<>>
        /\ now' = now + 1
        /\ UNCHANGED <<license_state, temp_dirs>>
        /\ UNCHANGED datasetVars

\* get_license_status
GetLicenseStatus ==
    /\ Begun < MaxRequests
    /\ responses' = Append(responses,
                           Answer("license-status", 200, license_state, license_state,
                                  Len(responses), 0))
    /\ now' = now + 1
    /\ UNCHANGED <<license_state, temp_dirs, inflight>>
    /\ UNCHANGED datasetVars

-----------------------------------------------------------------------------
(* The datasets the engine is run on. *)

Kinds == {"noinfo", "noanns", "nodims", "abs", "mixed", "dropped"}

\* frames 1..n of a sequence
Prefix(n) == 1..n

AllOfKind(k) == MkJson([f \in FrameNames |-> k])

VariedJsons == {NoJson, BadJson} \cup {MkJson(kinds) : kinds \in [FrameNames -> Kinds]}
PlainJsons == {NoJson, BadJson, AllOfKind("abs")}

Init ==
    /\ tree \in [SeqNames -> {[isdir |-> TRUE, img1 |-> TRUE, frames |-> Prefix(n)] :
                                n \in 0..MaxFrame}]
    /\ jsons \in {js \in [SeqNames -> VariedJsons \cup PlainJsons] :
                    \A s \in SeqNames \ {1} : js[s] \in PlainJsons}
    /\ cacheFile = <<>>
    /\ im_files = <<>>
    /\ inst = "none"
    /\ dirOrder = <<>>
    /\ last = NoCall
    /\ calls = 0
    /\ edits = 0
    /\ builtTree = <<>>
    /\ geo = NoGeo
    /\ outFile = <<>>
    /\ ServerStarted

Next ==
    \/ Scan
    \/ GetLabels
    \/ AddFrame
    \/ RemoveFrame
    \/ RenameFrame
    \/ DeleteCache
    \/ StripField
    \/ OldVersionCache

Spec == Init /\ [][Next]_vars
-----------------------------------------------------------------------------
(* Properties of get_labels and the cache. *)

Called == last.op = "get_labels"

\* the dict the call loaded, when there was a cache file
Loaded == last.pre_cache[1]

C2_LoadAfterBuildIsHit ==
    (Called /\ last.pre_built = <<tree>>) =>
        /\ last.hit /\ ~last.built
        /\ cacheFile[1].hash = Loaded.hash
        /\ cacheFile[1].labels = Loaded.labels

\* the frames of t2 are those of t1 with one frame added, removed or renamed
OneFrameEdit(t1, t2) ==
    \E s \in DOMAIN t1 :
        /\ \A o \in DOMAIN t1 \ {s} : t1[o] = t2[o]
        /\ t1[s].img1 = t2[s].img1
        /\ LET gone == t1[s].frames \ t2[s].frames
               new == t2[s].frames \ t1[s].frames
           IN  /\ Cardinality(gone) <= 1 /\ Cardinality(new) <= 1
               /\ gone \cup new # {}

\* C3: after a cache was built, one frame file added, removed or renamed makes
\* the next get_labels of a freshly scanned engine reject the cache and rebuild.
C3_FrameEditForcesRebuild ==
    (Called /\ last.fresh /\ last.pre_built # <<>>
        /\ OneFrameEdit(last.pre_built[1], tree)) =>
        (last.built /\ ~last.hit)

\* C4: an absent cache file, or one whose object lacks the version or the hash
\* field, makes get_labels rebuild, and no error of the cache check reaches the
\* caller.
C4_MalformedCacheRebuilds ==
    (Called /\ (\/ last.pre_cache = <<>>
                \/ ~Has(Loaded, "version")
                \/ ~Has(Loaded, "hash"))) =>
        (last.built /\ last.exc \in {"none", "RuntimeError"})

\* C5: get_labels never returns an empty label list: when the label list it
\* obtained, by a hit or by a rebuild, is empty, the call raises.
C5_NeverReturnsEmpty ==
    Called =>
        /\ last.exc = "none" => (last.labels # <<>> /\ last.labels = cacheFile[1].labels)
        /\ ((last.hit \/ last.built) /\ cacheFile[1].labels = <<>>)
               => last.exc = "RuntimeError"

\* frames were scanned, a build ran over them, none has a valid box: the call raised
C5_Witness ==
    /\ Called /\ last.built /\ last.pre_files # <<>>
    /\ cacheFile[1].results[3] > 0
    /\ last.exc = "RuntimeError"

-----------------------------------------------------------------------------
(* Properties of one build, read off the cache file the build wrote. *)

Fresh0 == [labels |-> <<>>, nf |-> 0, nm |-> 0, ne |-> 0, nc |-> 0,
           msgs |-> <<>>, aborted |-> FALSE]

SeqsOf(files) == {files[i][1] : i \in DOMAIN files}

\* the sequences of files whose processing raises
RaisingSeqs(files, js) ==
    {s \in SeqsOf(files) :
        /\ js[s].kind # "absent"
        /\ \/ PreludeRaises(js[s])
           \/ ProcessFrames(FilesOfSeq(files, s), js[s].data, Fresh0).exc}

LabelsOfSeq(labels, s) == LET In(lb) == lb.im_file[1] = s IN SelectSeq(labels, In)

FilesWithout(files, c) == LET Out(p) == p[1] # c IN SelectSeq(files, Out)

\* the call ran cache_labels (the cache check neither hit nor raised)
BuildCalled == Called /\ ~last.hit /\ last.exc # "KeyError"

\* C6: a sequence whose processing raises never aborts the build; it adds one
\* to corrupt and one message, and every other sequence contributes the labels
\* it contributes when the raising sequence is not in the dataset.
C6_CorruptSequenceIsContained ==
    BuildCalled =>
        /\ last.built
        /\ LET x == cacheFile[1]
               files == last.pre_files
               bad == RaisingSeqs(files, jsons)
           IN  /\ x.results[4] = Cardinality(bad)
               /\ \A c \in bad : \E i \in DOMAIN x.msgs : x.msgs[i] = <<"Error processing", c>>
               /\ \A c \in bad : \A s \in SeqsOf(files) \ {c} :
                     LabelsOfSeq(x.labels, s)
                         = LabelsOfSeq(BuildAcc(FilesWithout(files, c), jsons).labels, s)

\* a sequence raised and a sequence processed after it still contributed labels
C6_Witness ==
    /\ BuildCalled /\ last.built
    /\ \E c \in RaisingSeqs(last.pre_files, jsons) :
          \E i \in DOMAIN cacheFile[1].labels : cacheFile[1].labels[i].im_file[1] > c

\* the annotations of a frame that carry a box of positive width and height
ValidAnns(data, id) ==
    LET Valid(a) == /\ a.image_id = id
                    /\ Has(a, "bbox_image") /\ a.bbox_image # EmptyDict
                    /\ RGt(Get(a.bbox_image, "w", Num(0)), Num(0))
                    /\ RGt(Get(a.bbox_image, "h", Num(0)), Num(0))
    IN  SelectSeq(data.annotations, Valid)

\* C10: every label of a build has at least one box, as many class ids as
\* boxes, index-aligned, each box with w > 0 and h > 0; a box of non-positive
\* width or height is dropped alone: the label keeps one box per valid
\* annotation of its frame, in annotation order.
C10_LabelRecordsWellFormed ==
    (BuildCalled /\ last.built) =>
        \A i \in DOMAIN cacheFile[1].labels :
            LET lb == cacheFile[1].labels[i]
                data == jsons[lb.im_file[1]].data
                info == FirstInfo(data.images, lb.im_file[2])
                valid == ValidAnns(data, info[1].image_id)
            IN  /\ Len(lb.cls) >= 1
                /\ Len(lb.cls) = Len(lb.bboxes)
                /\ \A k \in DOMAIN lb.bboxes :
                      RGt(lb.bboxes[k][3], Num(0)) /\ RGt(lb.bboxes[k][4], Num(0))
                /\ Len(lb.cls) = Len(valid)
                /\ \A k \in DOMAIN lb.cls : lb.cls[k] = valid[k].category_id

\* a frame with valid and invalid boxes got a label holding the valid ones only
C10_Witness ==
    /\ BuildCalled /\ last.built
    /\ \E i \in DOMAIN cacheFile[1].labels :
          LET lb == cacheFile[1].labels[i]
              data == jsons[lb.im_file[1]].data
          IN  /\ Len(lb.cls) >= 2
              /\ Len(AnnsOfImage(data, lb.im_file[2])) > Len(lb.cls)

-----------------------------------------------------------------------------
(* The Sequence Scanner alone: any split directory, listed in any order. *)

ScanRecorded ==
    /\ \E io \in IterOrders(tree), go \in GlobOrders(tree) :
          /\ DoScan(io, go)
          /\ dirOrder' = <<io, go>>

InitScan ==
    /\ tree \in [SeqNames -> {[isdir |-> FALSE, img1 |-> FALSE, frames |-> {}],
                              [isdir |-> TRUE, img1 |-> FALSE, frames |-> {}]}
                             \cup {[isdir |-> TRUE, img1 |-> TRUE, frames |-> F] :
                                      F \in SUBSET FrameNames}]
    /\ jsons = [s \in SeqNames |-> NoJson]
    /\ cacheFile = <<>>
    /\ im_files = <<>>
    /\ inst = "none"
    /\ dirOrder = <<>>
    /\ last = NoCall
    /\ calls = 0
    /\ edits = 0
    /\ builtTree = <<>>
    /\ geo = NoGeo
    /\ outFile = <<>>
    /\ ServerStarted

NextScan == ScanRecorded

SpecScan == InitScan /\ [][NextScan]_vars

PathLess(p, q) == p[1] < q[1] \/ (p[1] = q[1] /\ p[2] < q[2])

\* C8: whatever order the file system lists the directories and the frames
\* in, get_img_files returns the frames of the sequences that have an img1
\* folder, each once, sequences in ascending name order and frames in
\* ascending file name order within a sequence: one list per directory tree.
C8_ScanOrderDeterministic ==
    inst = "scanned" =>
        /\ {im_files[i] : i \in DOMAIN im_files}
               = {<<s, f>> : s \in {d \in DOMAIN tree : tree[d].img1}, f \in FrameNames}
                    \cap {p \in SeqNames \X FrameNames : p[2] \in tree[p[1]].frames}
        /\ \A i, j \in DOMAIN im_files : i < j => PathLess(im_files[i], im_files[j])

\* directories and frames were listed in descending order, the result ascends
C8_Witness ==
    /\ inst = "scanned" /\ Len(im_files) >= 3
    /\ Len(dirOrder[1]) >= 2 /\ dirOrder[1][1] > dirOrder[1][2]
    /\ \E s \in DOMAIN tree : Len(dirOrder[2][s]) >= 2 /\ dirOrder[2][s][1] > dirOrder[2][s][2]
    /\ \A i, j \in DOMAIN im_files : i < j => PathLess(im_files[i], im_files[j])

-----------------------------------------------------------------------------
(* The example split: SEQ-A (sequence 1) has 3 frames and a JSON that       *)
(* annotates 2 of them with one absolute-pixel box each, SEQ-B (sequence 2) *)
(* has 2 frames and no JSON file.  The frame without annotations is either  *)
(* not listed in the JSON's images or listed there without annotations.     *)

ScenarioKinds ==
    {k \in [1..3 -> {"abs", "full", "noinfo", "noanns"}] :
        Cardinality({f \in 1..3 : k[f] \in {"abs", "full"}}) = 2}

ScenarioTree ==
    <<[isdir |-> TRUE, img1 |-> TRUE, frames |-> 1..3],
      [isdir |-> TRUE, img1 |-> TRUE, frames |-> 1..2]>>

InitScenario ==
    /\ tree = ScenarioTree
    /\ jsons \in {<<MkJson(k), NoJson>> : k \in ScenarioKinds}
    /\ cacheFile = <<>>
    /\ im_files = <<>>
    /\ inst = "none"
    /\ dirOrder = <<>>
    /\ last = NoCall
    /\ calls = 0
    /\ edits = 0
    /\ builtTree = <<>>
    /\ geo = NoGeo
    /\ outFile = <<>>
    /\ ServerStarted

NextScenario ==
    \/ Scan
    \/ GetLabels
    \/ DeleteCache
    \/ OldVersionCache

SpecScenario == InitScenario /\ [][NextScenario]_vars

\* the build of a freshly scanned engine
FreshBuild == Called /\ last.fresh /\ last.built

\* C7 as stated: the build reports found=2, missing=3, empty=0, corrupt=0 and
\* returns 2 labels.
C7_ScenarioCountsAsStated ==
    FreshBuild =>
        /\ cacheFile[1].results = <<2, 3, 0, 0, 5>>
        /\ Len(last.labels) = 2

\* C7 amended: found=2, corrupt=0, total 5 and 2 labels; SEQ-A's frame without
\* annotations counts as missing (missing=3, empty=0) when the JSON's images
\* do not list it, and as empty (missing=2, empty=1) when they list it.
C7_ScenarioCounts ==
    FreshBuild =>
        /\ Len(last.labels) = 2
        /\ Len(jsons[1].data.images) = 2 => cacheFile[1].results = <<2, 3, 0, 0, 5>>
        /\ Len(jsons[1].data.images) = 3 => cacheFile[1].results = <<2, 2, 1, 0, 5>>

\* the frame without annotations is not listed in images: counted missing
C7_Witness ==
    /\ FreshBuild
    /\ Len(jsons[1].data.images) = 2
    /\ cacheFile[1].results[2] = 3

-----------------------------------------------------------------------------
(* The geometry of one box: normalised by cache_labels, converted back by   *)
(* to_coco.                                                                 *)

GeoXs == {Num(0), Num(2), <<1, 2>>}
GeoYs == {Num(0), Num(1), <<3, 2>>}
GeoSizes == {Num(0), <<1, 2>>, Num(1), <<3, 2>>, Num(3)}
GeoHeights == {Num(2), Num(4)}
GeoWidths == {Num(4), Num(8)}

\* a bbox_image payload carries the top-left fields or the centre fields
GeoBoxes ==
    {[x |-> x, y |-> y, w |-> w, h |-> h] :
        x \in GeoXs, y \in GeoYs, w \in GeoSizes, h \in GeoSizes}
    \cup {[x_center |-> x, y_center |-> y, w |-> w, h |-> h] :
            x \in GeoXs, y \in GeoYs, w \in GeoSizes, h \in GeoSizes}

InitGeom ==
    /\ tree = [s \in SeqNames |-> [isdir |-> TRUE, img1 |-> TRUE, frames |-> {}]]
    /\ jsons = [s \in SeqNames |-> NoJson]
    /\ cacheFile = <<>>
    /\ im_files = <<>>
    /\ inst = "none"
    /\ dirOrder = <<>>
    /\ last = NoCall
    /\ calls = 0
    /\ edits = 0
    /\ builtTree = <<>>
    /\ geo \in {[pc |-> "in", box |-> b, H |-> H, W |-> W] :
                  b \in GeoBoxes, H \in GeoHeights, W \in GeoWidths}
    /\ outFile = <<>>
    /\ ServerStarted

\* cache_labels on the annotation carrying the box
GeoNormalize ==
    /\ geo.pc = "in"
    /\ LET r == NormalizeAnn([image_id |-> 1, category_id |-> 1, bbox_image |-> geo.box],
                             geo.H, geo.W)
       IN  geo' = IF r.out = "row"
                  THEN [pc |-> "stored", box |-> geo.box, H |-> geo.H, W |-> geo.W,
                        row |-> <<r.row[2], r.row[3], r.row[4], r.row[5]>>]
                  ELSE [pc |-> "dropped", box |-> geo.box, H |-> geo.H, W |-> geo.W]
    /\ UNCHANGED <<tree, jsons, cacheFile, im_files, inst, dirOrder, last, calls, edits,
                   builtTree, outFile, serverVars>>

\* to_coco on the stored box
GeoToCoco ==
    /\ geo.pc = "stored"
    /\ geo' = [pc |-> "coco", box |-> geo.box, H |-> geo.H, W |-> geo.W, row |-> geo.row,
               coco |-> CocoBox(geo.row, geo.H, geo.W, TRUE)]
    /\ UNCHANGED <<tree, jsons, cacheFile, im_files, inst, dirOrder, last, calls, edits,
                   builtTree, outFile, serverVars>>

NextGeom ==
    \/ GeoNormalize
    \/ GeoToCoco

SpecGeom == InitGeom /\ [][NextGeom]_vars

\* C9: an absolute-pixel top-left box (x, y, w, h) with w > 1 or h > 1 that
\* cache_labels stores comes back from to_coco as bbox [x, y, w, h], exactly,
\* with area w*h.
C9_RoundTrip ==
    (geo.pc = "coco" /\ Has(geo.box, "x")
        /\ (RGt(geo.box.w, Num(1)) \/ RGt(geo.box.h, Num(1)))) =>
        /\ geo.coco.bbox = <<geo.box.x, geo.box.y, geo.box.w, geo.box.h>>
        /\ geo.coco.area = RMul(geo.box.w, geo.box.h)

\* a box with only one of w, h above 1, off the origin, made the round trip
C9_Witness ==
    /\ geo.pc = "coco" /\ Has(geo.box, "x")
    /\ RGt(geo.box.w, Num(1)) /\ RLe(geo.box.h, Num(1))
    /\ RGt(geo.box.x, Num(0)) /\ RGt(geo.box.y, Num(0))
    /\ geo.coco.bbox = <<geo.box.x, geo.box.y, geo.box.w, geo.box.h>>

\* C11: every stored box has x_center, y_center, w and h inside [0, 1].
C11_BoxesInUnitRange ==
    geo.pc = "stored" =>
        \A k \in 1..4 : RLe(Num(0), geo.row[k]) /\ RLe(geo.row[k], Num(1))

\* the payload read as absolute pixels with top-left origin in a frame (H, W)
AsAbsolute(box, H, W) ==
    <<RDiv(RAdd(Get(box, "x", Num(0)), RDiv(box.w, Num(2))), W),
      RDiv(RAdd(Get(box, "y", Num(0)), RDiv(box.h, Num(2))), H),
      RDiv(box.w, W),
      RDiv(box.h, H)>>

\* the payload's centre fields as they are
AsGiven(box) ==
    <<Get(box, "x_center", Num(0)), Get(box, "y_center", Num(0)), box.w, box.h>>

\* C15 as stated: the payload is read as absolute pixels and divided by the
\* frame size exactly when w and h are each above 1; otherwise its centre
\* fields are stored as given.
C15_AbsoluteIffBothAbove ==
    geo.pc = "stored" =>
        geo.row = IF RGt(geo.box.w, Num(1)) /\ RGt(geo.box.h, Num(1))
                  THEN AsAbsolute(geo.box, geo.H, geo.W)
                  ELSE AsGiven(geo.box)

\* C15 amended: the payload is read as absolute pixels and divided by the frame
\* size exactly when w or h is above 1 (one of them is enough); when neither
\* is, its centre fields are stored as given.
C15_AbsoluteIffEitherAbove ==
    geo.pc = "stored" =>
        geo.row = IF RGt(geo.box.w, Num(1)) \/ RGt(geo.box.h, Num(1))
                  THEN AsAbsolute(geo.box, geo.H, geo.W)
                  ELSE AsGiven(geo.box)

\* a payload with only h above 1, off the origin, was divided by the frame size
C15_Witness ==
    /\ geo.pc = "stored"
    /\ RLe(geo.box.w, Num(1)) /\ RGt(geo.box.h, Num(1))
    /\ Has(geo.box, "x") /\ RGt(geo.box.x, Num(0))
    /\ geo.row = AsAbsolute(geo.box, geo.H, geo.W)
    /\ geo.row # AsGiven(geo.box)

-----------------------------------------------------------------------------
(* One build over splits whose first sequence has frames of every kind.     *)

BuildKinds == {"noinfo", "noanns", "nodims", "abs", "mixed", "dropped", "dup", "nocat"}

InitBuild ==
    /\ tree \in [SeqNames -> {[isdir |-> TRUE, img1 |-> TRUE, frames |-> Prefix(n)] :
                                n \in 1..MaxFrame}]
    /\ jsons \in {js \in [SeqNames -> {NoJson, AllOfKind("abs"), AllOfKind("noanns")}
                                      \cup {MkJson(kinds) : kinds \in [FrameNames -> BuildKinds]}] :
                    \A s \in SeqNames \ {1} :
                        js[s] \in {NoJson, AllOfKind("abs"), AllOfKind("noanns")}}
    /\ cacheFile = <<>>
    /\ im_files = <<>>
    /\ inst = "none"
    /\ dirOrder = <<>>
    /\ last = NoCall
    /\ calls = 0
    /\ edits = 0
    /\ builtTree = <<>>
    /\ geo = NoGeo
    /\ outFile = <<>>
    /\ ServerStarted

NextBuild ==
    \/ Scan
    \/ GetLabels

SpecBuild == InitBuild /\ [][NextBuild]_vars

\* the positions in files of the frames of sequences without a JSON file
AbsentIdx(files, js) == {i \in DOMAIN files : js[files[i][1]].kind = "absent"}

\* the positions in files of the frames the frame loop gets to: the JSON of
\* the sequence loaded and no earlier frame of the sequence raised
ReachedIdx(files, js) ==
    {i \in DOMAIN files :
        LET s == files[i][1]
        IN  /\ js[s].kind = "doc"
            /\ ~PreludeRaises(js[s])
            /\ \A j \in 1..(i - 1) :
                  files[j][1] = s => ~ProcessFrame(files[j], js[s].data, Fresh0).exc}

\* the positions in images of the entries named as the frame
EntriesOf(data, frame) == {k \in DOMAIN data.images : data.images[k].file_name = frame}

\* the entry of lowest position among them
LowestEntry(data, frame) ==
    data.images[CHOOSE k \in EntriesOf(data, frame) : \A m \in EntriesOf(data, frame) : k <= m]

UnmatchedIdx(files, js) ==
    {i \in ReachedIdx(files, js) : EntriesOf(js[files[i][1]].data, files[i][2]) = {}}

\* reached, matched, processed without an exception
ProcessedIdx(files, js) ==
    {i \in ReachedIdx(files, js) \ UnmatchedIdx(files, js) :
        ~ProcessFrame(files[i], js[files[i][1]].data, Fresh0).exc}

\* processed frames without a box of positive width and height
BoxlessIdx(files, js) ==
    {i \in ProcessedIdx(files, js) :
        ValidAnns(js[files[i][1]].data,
                  LowestEntry(js[files[i][1]].data, files[i][2]).image_id) = <<>>}

LabelledFiles(labels) == {labels[i].im_file : i \in DOMAIN labels}

\* C16: a sequence without a JSON file adds its number of frames to missing
\* and one message, changes no other counter, gets no label, and the build
\* goes on: counters and labels are otherwise those of the build without it.
C16_AbsentJsonCountsFramesMissing ==
    (BuildCalled /\ last.built) =>
        \A c \in SeqsOf(last.pre_files) :
            jsons[c].kind = "absent" =>
                LET x == cacheFile[1]
                    files == last.pre_files
                    n == Len(FilesOfSeq(files, c))
                    rest == BuildAcc(FilesWithout(files, c), jsons)
                IN  /\ x.results = <<rest.nf, rest.nm + n, rest.ne, rest.nc, Len(files)>>
                    /\ x.labels = rest.labels
                    /\ \A i \in DOMAIN x.labels : x.labels[i].im_file[1] # c
                    /\ \E i \in DOMAIN x.msgs :
                          x.msgs[i] = <<"Missing JSON file for sequence", c>>

\* sequence 1 has two frames and no JSON, a later sequence still got a label
C16_Witness ==
    /\ BuildCalled /\ last.built
    /\ jsons[1].kind = "absent"
    /\ Len(FilesOfSeq(last.pre_files, 1)) >= 2
    /\ cacheFile[1].results[2] >= 2
    /\ cacheFile[1].results[1] >= 1
    /\ \E i \in DOMAIN cacheFile[1].labels : cacheFile[1].labels[i].im_file[1] > 1

\* C17: every label carries the height and width of the first images entry
\* named as its frame and the boxes of the annotations of that entry's
\* image_id; a frame no entry names adds one to missing, gets no label, and
\* the frames after it are still processed.
C17_FirstMatchingEntryWins ==
    (BuildCalled /\ last.built) =>
        LET x == cacheFile[1]
            files == last.pre_files
        IN  /\ \A i \in DOMAIN x.labels :
                  LET lb == x.labels[i]
                      data == jsons[lb.im_file[1]].data
                      e == LowestEntry(data, lb.im_file[2])
                  IN  /\ EntriesOf(data, lb.im_file[2]) # {}
                      /\ lb.shape = <<e.height, e.width>>
                      /\ Len(lb.cls) = Len(ValidAnns(data, e.image_id))
                      /\ \A k \in DOMAIN lb.cls :
                            lb.cls[k] = ValidAnns(data, e.image_id)[k].category_id
            /\ x.results[2] = Cardinality(AbsentIdx(files, jsons))
                                + Cardinality(UnmatchedIdx(files, jsons))
            /\ \A i \in UnmatchedIdx(files, jsons) : files[i] \notin LabelledFiles(x.labels)
            /\ \A i \in ProcessedIdx(files, jsons) \ BoxlessIdx(files, jsons) :
                  files[i] \in LabelledFiles(x.labels)

\* a frame named by two entries got the first one's shape, and a frame after
\* an unnamed frame of the same sequence got a label
C17_Witness ==
    /\ BuildCalled /\ last.built
    /\ \E i \in DOMAIN cacheFile[1].labels :
          LET lb == cacheFile[1].labels[i]
          IN  Cardinality(EntriesOf(jsons[lb.im_file[1]].data, lb.im_file[2])) >= 2
    /\ \E i \in UnmatchedIdx(last.pre_files, jsons) :
          \E j \in DOMAIN cacheFile[1].labels :
              /\ cacheFile[1].labels[j].im_file[1] = last.pre_files[i][1]
              /\ cacheFile[1].labels[j].im_file[2] > last.pre_files[i][2]

\* C18: a matched frame with no annotations, or whose boxes are all dropped,
\* adds exactly one to empty, gets no label, and the frames after it are still
\* processed.
C18_BoxlessFrameCountsEmpty ==
    (BuildCalled /\ last.built) =>
        LET x == cacheFile[1]
            files == last.pre_files
        IN  /\ x.results[3] = Cardinality(BoxlessIdx(files, jsons))
            /\ \A i \in BoxlessIdx(files, jsons) : files[i] \notin LabelledFiles(x.labels)
            /\ \A i \in ProcessedIdx(files, jsons) \ BoxlessIdx(files, jsons) :
                  /\ files[i] \in LabelledFiles(x.labels)
            /\ x.results[1] = Cardinality(ProcessedIdx(files, jsons) \ BoxlessIdx(files, jsons))

\* a frame whose only box was dropped is counted empty and the next frame of
\* its sequence got a label
C18_Witness ==
    /\ BuildCalled /\ last.built
    /\ \E i \in BoxlessIdx(last.pre_files, jsons) :
          /\ AnnsOfImage(jsons[last.pre_files[i][1]].data, last.pre_files[i][2]) # <<>>
          /\ \E j \in DOMAIN cacheFile[1].labels :
                /\ cacheFile[1].labels[j].im_file[1] = last.pre_files[i][1]
                /\ cacheFile[1].labels[j].im_file[2] > last.pre_files[i][2]
    /\ cacheFile[1].results[3] >= 1

-----------------------------------------------------------------------------
(* The cache on a hit. *)

\* C19: when the stored cache passes the check of get_labels, cache_labels
\* does not run (no sequence JSON is opened), the cache file stays as it was,
\* and the call returns the stored label list as stored; it raises only when
\* that list is empty.  The cache file changes in a call only when
\* cache_labels ran, and is then the dict of that one build.
C19_HitReturnsStoredLabels ==
    Called =>
        /\ (last.pre_cache # <<>>
               /\ CacheCheck(last.pre_cache, last.pre_files, tree) = "hit") =>
              /\ last.hit /\ ~last.built
              /\ cacheFile = last.pre_cache
              /\ last.exc = "none" => last.labels = Loaded.labels
              /\ last.exc # "none" => (last.exc = "RuntimeError" /\ Loaded.labels = <<>>)
        /\ cacheFile # last.pre_cache => last.built
        /\ last.built =>
              /\ cacheFile[1].version = DATASET_CACHE_VERSION
              /\ cacheFile[1].hash = GetHash(last.pre_files, tree)

\* a freshly scanned engine loaded a cache of two labels or more built before
C19_Witness ==
    /\ Called /\ last.fresh /\ last.hit /\ last.exc = "none"
    /\ Len(last.labels) >= 2
    /\ last.labels = Loaded.labels
    /\ cacheFile = last.pre_cache

-----------------------------------------------------------------------------
(* Export and visualisation on a constructed engine, over a split that is   *)
(* edited between the calls.                                                *)

ExportKinds == {"abs", "mixed", "noanns", "noinfo"}

InitExport ==
    /\ tree \in [SeqNames -> {[isdir |-> TRUE, img1 |-> TRUE, frames |-> Prefix(n)] :
                                n \in 1..MaxFrame}]
    /\ jsons \in {js \in [SeqNames -> {NoJson, AllOfKind("abs")}
                                      \cup {MkJson(kinds) : kinds \in [FrameNames -> ExportKinds]}] :
                    \A s \in SeqNames \ {1} : js[s] \in {NoJson, AllOfKind("abs")}}
    /\ cacheFile = <<>>
    /\ im_files = <<>>
    /\ inst = "none"
    /\ dirOrder = <<>>
    /\ last = NoCall
    /\ calls = 0
    /\ edits = 0
    /\ builtTree = <<>>
    /\ geo = NoGeo
    /\ outFile = <<>>
    /\ ServerStarted

NextExport ==
    \/ Scan
    \/ GetLabels
    \/ ToCoco
    \/ VisualizeSample
    \/ RemoveFrame
    \/ DeleteJson
    \/ DeleteCache
    \/ StripField

SpecExport == InitExport /\ [][NextExport]_vars

Exported == last.op = "to_coco" /\ last.exc = "none"

\* the number of boxes of the labels before label i
RECURSIVE BoxesBefore(_, _)
BoxesBefore(labels, i) ==
    IF i <= 1 THEN 0 ELSE BoxesBefore(labels, i - 1) + Len(labels[i - 1].cls)

\* C12: to_coco numbers the images 1..N in label-list order and the
\* annotations 1..M in label-list then box order, without gap or repeat, and
\* the label list is in ascending sequence name and, within a sequence,
\* ascending frame file name order.
C12_SequentialIds ==
    Exported =>
        LET coco == last.coco[1]
            labels == last.labels
        IN  /\ Len(coco.images) = Len(labels)
            /\ \A i \in DOMAIN coco.images :
                  /\ coco.images[i].id = i
                  /\ coco.images[i].file_name = labels[i].im_file[2]
            /\ Len(coco.annotations) = BoxesBefore(labels, Len(labels) + 1)
            /\ \A k \in DOMAIN coco.annotations : coco.annotations[k].id = k
            /\ \A i \in DOMAIN labels : \A j \in DOMAIN labels[i].cls :
                  coco.annotations[BoxesBefore(labels, i) + j].image_id = i
            /\ \A i, j \in DOMAIN labels :
                  i < j => PathLess(labels[i].im_file, labels[j].im_file)

\* three images or more, the first with two boxes, so that the ids of the
\* annotations and of the images differ
C12_Witness ==
    /\ Exported
    /\ Len(last.labels) >= 3
    /\ Len(last.labels[1].cls) >= 2
    /\ last.coco[1].annotations[Len(last.coco[1].annotations)].id > Len(last.labels)
    /\ last.labels[1].im_file[1] < last.labels[Len(last.labels)].im_file[1]
    /\ outFile = <<[kind |-> "coco", coco |-> last.coco[1]]>>

\* C13: a to_coco call neither builds nor rewrites the cache file and leaves
\* the engine's frame list as it was.
C13_ToCocoLeavesCacheAndFrames ==
    last.op = "to_coco" =>
        /\ ~last.built
        /\ cacheFile = last.pre_cache
        /\ im_files = last.pre_files

\* C14: visualize_sample never raises: it returns a path or no result, no
\* result when the selected image cannot be read, and the label it selects is
\* the one at index mod count.
C14_VisualizeNeverRaises ==
    last.op = "visualize_sample" =>
        /\ last.exc = "none"
        /\ last.result \in {"path", "none"}
        /\ last.selected = <<last.labels[(last.index % Len(last.labels)) + 1].im_file>>
        /\ ~Readable(last.selected[1], tree) => last.result = "none"

\* C20: the images list has one entry per label and the annotations list one
\* entry per box; each annotation points to the image built from the label
\* that holds its box and carries the class id stored at the index of the box.
C20_CocoStructure ==
    Exported =>
        LET coco == last.coco[1]
            labels == last.labels
        IN  /\ Len(coco.images) = Len(labels)
            /\ Len(coco.annotations) = BoxesBefore(labels, Len(labels) + 1)
            /\ \A i \in DOMAIN labels : \A j \in DOMAIN labels[i].cls :
                  LET a == coco.annotations[BoxesBefore(labels, i) + j]
                  IN  /\ a.image_id = coco.images[i].id
                      /\ coco.images[i].file_name = labels[i].im_file[2]
                      /\ a.category_id = labels[i].cls[j]
                      /\ a.bbox = CocoBox(labels[i].bboxes[j], labels[i].shape[1],
                                          labels[i].shape[2], TRUE).bbox

\* a label with two boxes of different classes, after another label
C20_Witness ==
    /\ Exported
    /\ \E i \in DOMAIN last.labels :
          /\ i >= 2
          /\ Len(last.labels[i].cls) >= 2
          /\ last.labels[i].cls[1] # last.labels[i].cls[2]
          /\ last.coco[1].annotations[BoxesBefore(last.labels, i) + 2].category_id
                 = last.labels[i].cls[2]

-----------------------------------------------------------------------------
(* The frame list after a call. *)

\* C21: after a get_labels call that returns, by a hit or by a rebuild, the
\* engine's frame list is the list of the im_file of the returned labels, in
\* label order; every one of them was in the frame list before the call.
C21_FrameListIsLabelFiles ==
    (Called /\ last.exc = "none") =>
        /\ Len(im_files) = Len(last.labels)
        /\ \A i \in DOMAIN im_files : im_files[i] = last.labels[i].im_file
        /\ \A i \in DOMAIN im_files :
              \E j \in DOMAIN last.pre_files : last.pre_files[j] = im_files[i]

\* a freshly scanned engine keeps two frames or more, fewer than it scanned
C21_Witness ==
    /\ Called /\ last.exc = "none" /\ last.fresh
    /\ Len(im_files) >= 2
    /\ Len(im_files) < Len(last.pre_files)
    /\ \A i \in DOMAIN im_files : im_files[i] = last.labels[i].im_file

-----------------------------------------------------------------------------
(* A sequence that raises at a frame. *)

\* the positions in the frames fs of one sequence at which processing raises
RaisingAt(fs, data) == {k \in DOMAIN fs : ProcessFrame(fs[k], data, Fresh0).exc}

FirstOf(S) == CHOOSE k \in S : \A m \in S : k <= m

\* the sequences of files whose JSON loads and one of whose frames raises
FrameRaisingSeqs(files, js) ==
    {s \in SeqsOf(files) :
        /\ js[s].kind = "doc" /\ ~PreludeRaises(js[s])
        /\ RaisingAt(FilesOfSeq(files, s), js[s].data) # {}}

\* files without the frames of sequence c from its first raising frame on
CutAtRaise(files, js, c) ==
    LET first == FilesOfSeq(files, c)[FirstOf(RaisingAt(FilesOfSeq(files, c), js[c].data))]
        Kept(p) == p[1] # c \/ p[2] < first[2]
    IN  SelectSeq(files, Kept)

\* C22: when a sequence raises at a frame, the build is the build of the
\* frame list without that frame and the frames of the sequence after it,
\* with one more corrupt: the later frames change no counter and get no
\* label, and the labels and counts of the earlier frames are kept.
C22_RaiseKeepsEarlierFrames ==
    (BuildCalled /\ last.built) =>
        \A c \in FrameRaisingSeqs(last.pre_files, jsons) :
            LET x == cacheFile[1]
                files == last.pre_files
                rest == BuildAcc(CutAtRaise(files, jsons, c), jsons)
            IN  /\ x.results = <<rest.nf, rest.nm, rest.ne, rest.nc + 1, Len(files)>>
                /\ x.labels = rest.labels
                /\ \A i \in DOMAIN x.labels :
                      x.labels[i].im_file \in {CutAtRaise(files, jsons, c)[j] :
                                                  j \in DOMAIN CutAtRaise(files, jsons, c)}

\* a sequence raised at its second frame and the label of its first frame is
\* in the build result
C22_Witness ==
    /\ BuildCalled /\ last.built
    /\ \E c \in FrameRaisingSeqs(last.pre_files, jsons) :
          /\ FirstOf(RaisingAt(FilesOfSeq(last.pre_files, c), jsons[c].data)) >= 2
          /\ \E i \in DOMAIN cacheFile[1].labels : cacheFile[1].labels[i].im_file[1] = c
          /\ cacheFile[1].results[4] = 1

-----------------------------------------------------------------------------
(* The counters of a build. *)

\* C23: in the dict a build writes, total_frames is the length of the frame
\* list the hash was computed over, found is the number of labels, and
\* found + missing + empty <= total_frames, with equality when corrupt = 0.
C23_CountersAddUp ==
    (BuildCalled /\ last.built) =>
        LET x == cacheFile[1]
            nf == x.results[1]
            nm == x.results[2]
            ne == x.results[3]
            nc == x.results[4]
            n == x.results[5]
        IN  /\ n = Len(last.pre_files)
            /\ x.hash = GetHash(last.pre_files, tree)
            /\ nf = Len(x.labels)
            /\ nf + nm + ne <= n
            /\ nc = 0 => nf + nm + ne = n
            /\ nf >= 0 /\ nm >= 0 /\ ne >= 0 /\ nc >= 0

\* a build with found, missing and empty frames and no corrupt sequence
C23_Witness ==
    /\ BuildCalled /\ last.built
    /\ cacheFile[1].results[4] = 0
    /\ cacheFile[1].results[1] >= 1
    /\ cacheFile[1].results[2] >= 2
    /\ cacheFile[1].results[3] >= 1
    /\ cacheFile[1].results[1] + cacheFile[1].results[2] + cacheFile[1].results[3]
          = cacheFile[1].results[5]

-----------------------------------------------------------------------------
(* Consecutive calls on one engine. *)

IsCall(l) == l.op \in {"get_labels", "to_coco", "visualize_sample"}

-----------------------------------------------------------------------------
(* A dataset without a single label. *)

\* C25: a build that finds no label writes the cache file, with the current
\* version and the hash of the frame list, before get_labels raises; on an
\* unchanged split the next freshly scanned engine accepts that cache, does
\* not rebuild, leaves the file as it is and raises the same error.
C25_EmptyBuildIsCachedAndFailsAgain ==
    Called =>
        /\ (last.built /\ last.exc = "RuntimeError") =>
              /\ cacheFile # <<>>
              /\ cacheFile[1].labels = <<>>
              /\ cacheFile[1].version = DATASET_CACHE_VERSION
              /\ cacheFile[1].hash = GetHash(last.pre_files, tree)
        /\ (last.built /\ last.exc = "none") => cacheFile[1].labels # <<>>
        /\ (last.fresh /\ last.pre_cache # <<>> /\ Loaded.labels = <<>>) =>
              /\ last.hit /\ ~last.built
              /\ last.exc = "RuntimeError"
              /\ cacheFile = last.pre_cache

\* a second engine scanned two frames or more, met the cache of the failed
\* build and failed without building
C25_Witness ==
    /\ Called /\ last.fresh
    /\ last.pre_cache # <<>> /\ Loaded.labels = <<>>
    /\ Loaded.results[5] >= 2
    /\ last.hit /\ ~last.built
    /\ last.exc = "RuntimeError"

-----------------------------------------------------------------------------
(* The server under any sequence of requests. *)

InitServer ==
    /\ tree = [s \in SeqNames |-> [isdir |-> TRUE, img1 |-> TRUE, frames |-> {}]]
    /\ jsons = [s \in SeqNames |-> NoJson]
    /\ cacheFile = <<>>
    /\ im_files = <<>>
    /\ inst = "none"
    /\ dirOrder = <<>>
    /\ last = NoCall
    /\ calls = 0
    /\ edits = 0
    /\ builtTree = <<>>
    /\ geo = NoGeo
    /\ outFile = <<>>
    /\ ServerStarted

NextServer ==
    \/ ActivateLicense
    \/ AnalyzeVideo
    \/ AnalyzeVideoResumes
    \/ GetLicenseStatus

SpecServer == InitServer /\ [][NextServer]_vars

\* license_state as it was just before the i-th answered request acted on it
StateBefore(i) == IF i = 1 THEN LicenseStateAtImport ELSE responses[i - 1].after

ActivatedBy(i) == responses[i].req = "activate" /\ responses[i].status = 200

\* C26: analyze_video gets past the license check only after an activation
\* that succeeded; while license_state.active is false it answers 403 and makes
\* no files; license_state changes only in a successful activation, which
\* leaves it active, so it is never reset; an activation answered 400 or 403
\* leaves license_state as it was.
C26_LicenseGate ==
    /\ license_state = StateBefore(Len(responses) + 1)
    /\ \A i \in DOMAIN responses :
        /\ (responses[i].req = "analyze" /\ ~responses[i].seen.active) =>
              (responses[i].status = 403 /\ responses[i].made = 0)
        /\ (responses[i].req = "analyze" /\ responses[i].status # 403) =>
              \E j \in 1..responses[i].begun : ActivatedBy(j)
        /\ responses[i].after # StateBefore(i) =>
              (ActivatedBy(i) /\ responses[i].after.active)
        /\ StateBefore(i).active => responses[i].after.active
        /\ (responses[i].req = "activate" /\ responses[i].status \in {400, 403}) =>
              (responses[i].after = responses[i].seen /\ responses[i].after = StateBefore(i))
    /\ (\A i \in DOMAIN responses : ~ActivatedBy(i)) =>
          (temp_dirs = 0 /\ license_state = LicenseStateAtImport)

\* refused while inactive, a rejected activation, a successful one, and then
\* an analysis that went through
C26_Witness ==
    /\ Len(responses) = 4
    /\ responses[1].req = "analyze" /\ responses[1].status = 403
    /\ responses[2].req = "activate" /\ responses[2].status = 403
    /\ responses[3].req = "activate" /\ responses[3].status = 200
    /\ responses[4].req = "analyze" /\ responses[4].status = 200
    /\ temp_dirs = 1
    /\ license_state.active

=============================================================================
